---------------------------- MODULE Spec2Model ----------------------------
(***************************************************************************)
(* Model of the synthetic e-commerce data generator (generate_data.py)     *)
(* and of the SQLite load path (ingest_data.py).                           *)
(*                                                                         *)
(* Three state machines share the module:                                  *)
(*   SpecDist  distribute_items called on inputs drawn from bounded sets;  *)
(*   SpecGen   main() of generate_data.py, run twice with one seed;        *)
(*   SpecLoad  main() of ingest_data.py.                                   *)
(***************************************************************************)
EXTENDS Integers, Sequences, FiniteSets, TLC

(***************************************************************************)
(* Bounds of the model.                                                    *)
(***************************************************************************)
DistMaxOrders == 3
DistMaxTotal == 6
DistMaxPer == 2
\* generate_data.main: records generated in one run, over the five pools
MaxRecords == 6
\* clock ticks: length of the date window, ticks in a day, latest start
SpanTicks == 1
TicksPerDay == 2
MaxNow == 1
\* ingest_data.main: ids a row may carry, rows the store may come to hold
MaxId == 2
MaxLoadRows == 5
\* times ingest_data.main is run on the same files and the same database
MaxRuns == 2

(***************************************************************************)
(* Program constants.                                                      *)
(***************************************************************************)
DefaultMinPerOrder == 1
DefaultMaxPerOrder == 5
MinQuantity == 1
MaxQuantity == 4
MaxRetries == 5
MinRating == 1
MaxRating == 5

VARIABLES
    \* distribute_items: parameters, locals and position
    num_orders, total_items, min_per_order, max_per_order,
    items_per_order, remaining, order_indices, fi, dpc,
    \* generate_data.main: the counts it passes, the clock of each run,
    \* the five pools of each run, and its position
    cfg, now, customers, products, orders, order_items, reviews, gpc,
    \* generate_orders_and_items: locals
    items_distribution, order_id, customer, order_date, order_subtotal,
    used_products, item_k, product, retries, order_item_counter,
    \* ingest_data.main: the connection, the store, the loop and the frame
    foreign_keys, tables, db, view, lpc, ti, file, df, df_len, result,
    \* the run of ingest_data.main under way, and what the CSV files on disk
    \* were found to be
    run, disk

distVars == <<num_orders, total_items, min_per_order, max_per_order,
              items_per_order, remaining, order_indices, fi, dpc>>

poolVars == <<customers, products, orders, order_items, reviews>>

orderVars == <<items_distribution, order_id, customer, order_date,
               order_subtotal, used_products, item_k, product, retries,
               order_item_counter>>

genVars == <<cfg, now, gpc, poolVars, orderVars>>

loadVars == <<foreign_keys, tables, db, view, lpc, ti, file, df, df_len,
              result, run, disk>>

vars == <<distVars, genVars, loadVars>>

(***************************************************************************)
(* Helpers.                                                                *)
(***************************************************************************)
RECURSIVE Sum(_)
Sum(s) == IF s = <<>> THEN 0 ELSE Head(s) + Sum(Tail(s))

\* [x] * n
Repeat(x, n) == [i \in 1..n |-> x]

\* every outcome of random.shuffle on a list of the indices 1..n
Shuffles(n) == Permutations(1..n)

(***************************************************************************)
(* distribute_items(num_orders, total_items, min_per_order, max_per_order) *)
(* Python indices 0..n-1 are the indices 1..n here.                        *)
(***************************************************************************)
\* line 102: the order may take one more item
BelowMaxLE(count, max) == count <= max
BelowMax(count, max) == count < max

\* line 106: every order has saturated
AllSaturated(items, max) == \A i \in 1..Len(items) : items[i] = max

\* line 108: the realized sum differs from the request
SumMismatch(items, total) == Sum(items) # total

\* line 94: what is left to hand out once every order holds the minimum
InitialRemainingMinOne(n, total, min) == total - n
InitialRemaining(n, total, min) == total - n * min

\* lines 93-96
DistEnter ==
    /\ UNCHANGED <<genVars, loadVars>>
    /\ dpc = "call"
    /\ items_per_order' = Repeat(min_per_order, num_orders)
    /\ remaining' = InitialRemaining(num_orders, total_items, min_per_order)
    /\ order_indices' = [i \in 1..num_orders |-> i]
    /\ fi' = 0
    /\ dpc' = "while"
    /\ UNCHANGED <<num_orders, total_items, min_per_order, max_per_order>>

\* lines 97-98: the while test, then random.shuffle(order_indices)
DistWhile ==
    /\ UNCHANGED <<genVars, loadVars>>
    /\ dpc = "while"
    /\ IF remaining > 0
       THEN /\ order_indices' \in Shuffles(num_orders)
            /\ fi' = 1
            /\ dpc' = "for"
       ELSE /\ dpc' = "check"
            /\ UNCHANGED <<order_indices, fi>>
    /\ UNCHANGED <<num_orders, total_items, min_per_order, max_per_order,
                   items_per_order, remaining>>

\* lines 99-104: one iteration of the for loop (or its end)
DistFor ==
    /\ UNCHANGED <<genVars, loadVars>>
    /\ dpc = "for"
    /\ IF fi > num_orders \/ remaining <= 0
       THEN \* loop exhausted, or break at line 101
            /\ dpc' = "safety"
            /\ UNCHANGED <<items_per_order, remaining, fi>>
       ELSE LET idx == order_indices[fi] IN
            /\ IF BelowMax(items_per_order[idx], max_per_order)
               THEN /\ items_per_order' =
                          [items_per_order EXCEPT ![idx] = @ + 1]
                    /\ remaining' = remaining - 1
               ELSE UNCHANGED <<items_per_order, remaining>>
            /\ fi' = fi + 1
            /\ dpc' = "for"
    /\ UNCHANGED <<num_orders, total_items, min_per_order, max_per_order,
                   order_indices>>

\* lines 106-107: the safety break
DistSafety ==
    /\ UNCHANGED <<genVars, loadVars>>
    /\ dpc = "safety"
    /\ dpc' = IF AllSaturated(items_per_order, max_per_order)
              THEN "check" ELSE "while"
    /\ UNCHANGED <<num_orders, total_items, min_per_order, max_per_order,
                   items_per_order, remaining, order_indices, fi>>

\* lines 108-110: raise ValueError, or return items_per_order
DistCheck ==
    /\ UNCHANGED <<genVars, loadVars>>
    /\ dpc = "check"
    /\ dpc' = IF SumMismatch(items_per_order, total_items)
              THEN "raised" ELSE "returned"
    /\ UNCHANGED <<num_orders, total_items, min_per_order, max_per_order,
                   items_per_order, remaining, order_indices, fi>>

(***************************************************************************)
(* generate_data.py: values and conversions.                               *)
(*                                                                         *)
(* Money is counted in mills (tenths of a cent) so that rounding to two    *)
(* decimals does something; a CSV field written with :.2f holds cents.     *)
(* Ids are integers (str() and INTEGER columns convert them back and       *)
(* forth). Fields no claim reads (names, address, status, rating, texts)   *)
(* are left out of the records.                                            *)
(***************************************************************************)
\* the two executions of main() that are compared, started with one seed:
\* every random draw below is made once and used by both
Runs == {1, 2}

\* fake.simple_profile()["mail"]: Faker draws it, nothing makes it unique
Emails == {"ann@example.org", "bob@example.net"}

\* random.uniform(5, 500), in mills, before line 76 rounds it
RawPrices == {5004, 5015}

\* random.randint(1, 4), line 148
Quantities == MinQuantity..MaxQuantity

\* round(x, 2) on a non-negative amount of mills: to the nearest cent,
\* halves to the even cent
Round2(x) ==
    LET q == x \div 10
        r == x % 10
    IN  10 * (IF r < 5 THEN q
              ELSE IF r > 5 THEN q + 1
              ELSE IF q % 2 = 0 THEN q ELSE q + 1)

\* f"{x:.2f}": the cents written to the CSV field
Format2(x) == Round2(x) \div 10

\* float(field): the amount read back from a field, in mills
ParseAmount(field) == field * 10

\* lines 18-21: now - 365*years days + randint(0, window) seconds
DateRangeWithinYears(clock, draw) == (clock - SpanTicks) + draw

\* strftime("%Y-%m-%d"): the day a tick falls in
Strftime(t) == t \div TicksPerDay

\* random.randint(0, window), line 21: the two ends of the window
DateDraws == {0, SpanTicks}

\* random.choice(seq): an index of seq; IndexError on an empty seq
Choices(n) == 1..n

\* pool with the record recs[r] appended in each run r
AppendAll(pool, recs) == [r \in Runs |-> Append(pool[r], recs[r])]

EmptyPools == [r \in Runs |-> <<>>]

\* both runs generate the same number of records (no branch reads the clock)
Count(pool) == Len(pool[1])

(***************************************************************************)
(* generate_customers and generate_products, one loop iteration a step.    *)
(***************************************************************************)
\* lines 26-48
GenCustomer ==
    /\ gpc = "customers"
    /\ IF Count(customers) < cfg.customers
       THEN \E email \in Emails, draw \in DateDraws :
              /\ customers' = AppendAll(customers, [r \in Runs |->
                    [customer_id |-> Count(customers) + 1,
                     email |-> email,
                     registration_date |->
                         Strftime(DateRangeWithinYears(now[r], draw))]])
              /\ gpc' = "customers"
       ELSE /\ gpc' = "products"
            /\ UNCHANGED customers
    /\ UNCHANGED <<cfg, now, products, orders, order_items, reviews,
                   orderVars, distVars, loadVars>>

\* lines 74-88
GenProduct ==
    /\ gpc = "products"
    /\ IF Count(products) < cfg.products
       THEN \E raw \in RawPrices :
              /\ products' = AppendAll(products, [r \in Runs |->
                    [product_id |-> Count(products) + 1,
                     price |-> Format2(Round2(raw))]])
              /\ gpc' = "products"
       ELSE /\ gpc' = "orders"
            /\ UNCHANGED products
    /\ UNCHANGED <<cfg, now, customers, orders, order_items, reviews,
                   orderVars, distVars, loadVars>>

(***************************************************************************)
(* generate_orders_and_items.                                              *)
(***************************************************************************)
\* line 125: the call of distribute_items with its default bounds
GenCallDistribute ==
    /\ gpc = "orders"
    /\ num_orders' = cfg.orders
    /\ total_items' = cfg.items
    /\ min_per_order' = DefaultMinPerOrder
    /\ max_per_order' = DefaultMaxPerOrder
    /\ dpc' = "call"
    /\ gpc' = "distribute"
    /\ UNCHANGED <<items_per_order, remaining, order_indices, fi>>
    /\ UNCHANGED <<cfg, now, poolVars, orderVars, loadVars>>

\* lines 125-130: distribute_items returned, or its ValueError propagates
GenDistributeDone ==
    /\ gpc = "distribute"
    /\ dpc \in {"returned", "raised"}
    /\ IF dpc = "returned"
       THEN /\ items_distribution' = items_per_order
            /\ order_item_counter' = 1
            /\ order_id' = 1
            /\ gpc' = "order_loop"
       ELSE /\ gpc' = "raised"
            /\ UNCHANGED <<items_distribution, order_item_counter, order_id>>
    /\ UNCHANGED <<cfg, now, poolVars, customer, order_date, order_subtotal,
                   used_products, item_k, product, retries, distVars, loadVars>>

\* lines 130-138: the head of the order loop, or the return at line 179
OrderBegin ==
    /\ gpc = "order_loop"
    /\ IF order_id > cfg.orders
       THEN /\ gpc' = "reviews"
            /\ UNCHANGED <<customer, order_date, order_subtotal,
                           used_products, item_k>>
       ELSE IF Count(customers) = 0
       THEN \* random.choice(customers) raises IndexError
            /\ gpc' = "raised"
            /\ UNCHANGED <<customer, order_date, order_subtotal,
                           used_products, item_k>>
       ELSE \E c \in Choices(Count(customers)), draw \in DateDraws :
              /\ customer' = c
              /\ order_date' =
                    [r \in Runs |-> DateRangeWithinYears(now[r], draw)]
              /\ order_subtotal' = 0
              /\ used_products' = {}
              /\ item_k' = 0
              /\ gpc' = "item_loop"
    /\ UNCHANGED <<cfg, now, poolVars, items_distribution, order_id,
                   product, retries, order_item_counter, distVars,
                   loadVars>>

\* lines 139-142: the first pick of a line item
ItemPick ==
    /\ gpc = "item_loop"
    /\ item_k < items_distribution[order_id]
    /\ IF Count(products) = 0
       THEN \* random.choice(products) raises IndexError
            /\ gpc' = "raised"
            /\ UNCHANGED <<product, retries>>
       ELSE /\ product' \in Choices(Count(products))
            /\ retries' = 0
            /\ gpc' = "retry"
    /\ UNCHANGED <<cfg, now, poolVars, items_distribution, order_id,
                   customer, order_date, order_subtotal, used_products,
                   item_k, order_item_counter, distVars,
                   loadVars>>

\* line 143: the product picked is already in the order and a retry is left
MustRetryNever == FALSE
MustRetry ==
    /\ products[1][product].product_id \in used_products
    /\ retries < MaxRetries

\* lines 143-145: one more pick
ItemRetry ==
    /\ gpc = "retry"
    /\ MustRetry
    /\ product' \in Choices(Count(products))
    /\ retries' = retries + 1
    /\ UNCHANGED <<cfg, now, gpc, poolVars, items_distribution, order_id,
                   customer, order_date, order_subtotal, used_products,
                   item_k, order_item_counter, distVars,
                   loadVars>>

\* line 150
Subtotal(unit_price, quantity) == unit_price * quantity

\* line 151: order_subtotal += subtotal
AccumulateOverwrite(running, subtotal) == subtotal
Accumulate(running, subtotal) == running + subtotal

\* line 156: the order an item is recorded under
ItemOrderIdZeroBased(oid) == oid - 1
ItemOrderId(oid) == oid

\* lines 146-163: the line item is recorded
ItemEmit ==
    /\ gpc = "retry"
    /\ ~MustRetry
    /\ \E quantity \in Quantities :
         LET unit_price(r) == ParseAmount(products[r][product].price)
             subtotal(r) == Subtotal(unit_price(r), quantity)
         IN  /\ used_products' =
                   used_products \cup {products[1][product].product_id}
             /\ order_subtotal' = Accumulate(order_subtotal, subtotal(1))
             /\ order_items' = AppendAll(order_items, [r \in Runs |->
                   [order_item_id |-> order_item_counter,
                    order_id |-> ItemOrderId(order_id),
                    product_id |-> products[r][product].product_id,
                    quantity |-> quantity,
                    unit_price |-> Format2(unit_price(r)),
                    subtotal |-> Format2(subtotal(r))]])
    /\ order_item_counter' = order_item_counter + 1
    /\ item_k' = item_k + 1
    /\ gpc' = "item_loop"
    /\ UNCHANGED <<cfg, now, customers, products, orders, reviews,
                   items_distribution, order_id, customer, order_date,
                   product, retries, distVars, loadVars>>

\* lines 165-177: the order is recorded once its items are
OrderEnd ==
    /\ gpc = "item_loop"
    /\ item_k = items_distribution[order_id]
    /\ LET total_amount == Round2(order_subtotal)
       IN  orders' = AppendAll(orders, [r \in Runs |->
               [order_id |-> order_id,
                customer_id |-> customers[r][customer].customer_id,
                order_date |-> Strftime(order_date[r]),
                total_amount |-> Format2(total_amount)]])
    /\ order_id' = order_id + 1
    /\ gpc' = "order_loop"
    /\ UNCHANGED <<cfg, now, customers, products, order_items, reviews,
                   items_distribution, customer, order_date, order_subtotal,
                   used_products, item_k, product, retries,
                   order_item_counter, distVars,
                   loadVars>>

(***************************************************************************)
(* generate_reviews, one loop iteration a step.                            *)
(***************************************************************************)
\* lines 189-204
GenReview ==
    /\ gpc = "reviews"
    /\ IF Count(reviews) >= cfg.reviews
       THEN /\ gpc' = "done"
            /\ UNCHANGED reviews
       ELSE IF Count(customers) = 0 \/ Count(products) = 0
       THEN \* random.choice raises IndexError
            /\ gpc' = "raised"
            /\ UNCHANGED reviews
       ELSE \E c \in Choices(Count(customers)),
               p \in Choices(Count(products)), draw \in DateDraws :
              /\ reviews' = AppendAll(reviews, [r \in Runs |->
                    [review_id |-> Count(reviews) + 1,
                     product_id |-> products[r][p].product_id,
                     customer_id |-> customers[r][c].customer_id,
                     review_date |->
                         Strftime(DateRangeWithinYears(now[r], draw))]])
              /\ gpc' = "reviews"
    /\ UNCHANGED <<cfg, now, customers, products, orders, order_items,
                   orderVars, distVars, loadVars>>

(***************************************************************************)
(* ingest_data.py: the schema (DATA_FILES) and what SQLite enforces.       *)
(*                                                                         *)
(* A row keeps its key, its references and the columns under a UNIQUE or   *)
(* CHECK constraint. The store maps each table to its set of rows.         *)
(***************************************************************************)
\* DATA_FILES, in the order main iterates it
TablesChildFirst ==
    <<"customers", "products", "order_items", "orders", "reviews">>
Tables == <<"customers", "products", "orders", "order_items", "reviews">>

TableNames == {Tables[i] : i \in 1..Len(Tables)}

RowIds == 1..MaxId

\* values a rating column may be given: each side of both ends of the CHECK
Ratings == {MinRating - 1, MinRating, MaxRating, MaxRating + 1}

\* the rows a CSV file of table t may hold
RowsOf(t) ==
    CASE t = "customers" -> [customer_id : RowIds, email : Emails]
      [] t = "products" -> [product_id : RowIds]
      [] t = "orders" -> [order_id : RowIds, customer_id : RowIds]
      [] t = "order_items" ->
            [order_item_id : RowIds, order_id : RowIds, product_id : RowIds]
      [] t = "reviews" ->
            [review_id : RowIds, product_id : RowIds, customer_id : RowIds,
             rating : Ratings]

\* INTEGER PRIMARY KEY column of each table
KeyOf(t) ==
    CASE t = "customers" -> "customer_id"
      [] t = "products" -> "product_id"
      [] t = "orders" -> "order_id"
      [] t = "order_items" -> "order_item_id"
      [] t = "reviews" -> "review_id"

\* FOREIGN KEY (column) REFERENCES parent(column), lines 55, 69-70, 84-85
ForeignKeys(t) ==
    CASE t = "orders" -> {<<"customer_id", "customers">>}
      [] t = "order_items" ->
            {<<"order_id", "orders">>, <<"product_id", "products">>}
      [] t = "reviews" ->
            {<<"product_id", "products">>, <<"customer_id", "customers">>}
      [] OTHER -> {}

EmptyStore == [t \in TableNames |-> {}]

Column(rows, col) == {r[col] : r \in rows}

StoreSize(store) ==
    Cardinality(store["customers"]) + Cardinality(store["products"])
    + Cardinality(store["orders"]) + Cardinality(store["order_items"])
    + Cardinality(store["reviews"])

\* PRIMARY KEY: no stored row has the key
PrimaryKeyNotEnforced(t, row, store) == TRUE
PrimaryKeyOK(t, row, store) == row[KeyOf(t)] \notin Column(store[t], KeyOf(t))

\* line 21: email TEXT NOT NULL UNIQUE
UniqueNotEnforced(t, row, store) == TRUE
UniqueOK(t, row, store) ==
    t = "customers" => row.email \notin Column(store[t], "email")

\* line 122: PRAGMA foreign_keys = ON
PragmaOmitted == FALSE
PragmaForeignKeys == TRUE

\* every reference of the row has its parent row, when enforcement is on
ForeignKeysNotEnforced(t, row, store) == TRUE
ForeignKeysOK(t, row, store) ==
    foreign_keys =>
        \A fk \in ForeignKeys(t) :
            row[fk[1]] \in Column(store[fk[2]], KeyOf(fk[2]))

\* line 81: CHECK (rating BETWEEN 1 AND 5)
CheckOK(t, row) ==
    t = "reviews" => (MinRating <= row.rating /\ row.rating <= MaxRating)

\* the INSERT of row into t goes through
Accepts(t, row, store) ==
    /\ PrimaryKeyOK(t, row, store)
    /\ UniqueOK(t, row, store)
    /\ ForeignKeysOK(t, row, store)
    /\ CheckOK(t, row)

\* what pd.read_csv makes of the file of a table: no file (FileNotFoundError,
\* line 94), rows that do not tokenize (ParserError), a file without columns
\* (EmptyDataError), or a frame of rows
FileKinds == {"absent", "malformed", "empty", "rows"}

\* line 135: the exceptions main catches per table
Skipped(kind) == kind \in {"absent", "malformed"}

\* the file of table t: any file the first time it is read, the same file
\* every time after
FilesOnDisk(t) == IF disk[t] = "unread" THEN FileKinds ELSE {disk[t]}

\* the number of rows of the frame read for table t: in a later run the file
\* still holds the rows the first run loaded from it
FrameLengths(t) ==
    IF run = 1 THEN 0..(MaxLoadRows - StoreSize(db))
    ELSE {Cardinality(db[t])}

\* the rows the frame of table t may hold next
FrameRows(t) ==
    IF run = 1 THEN RowsOf(t)
    ELSE db[t] \ {df[i] : i \in 1..Len(df)}

\* lines 16, 30, 46, 61, 75: CREATE TABLE IF NOT EXISTS leaves a table that
\* exists as it is and creates a missing one empty
CreateOrReplace(t, existing, store) == {}
CreateIfNotExists(t, existing, store) ==
    IF t \in existing THEN store[t] ELSE {}

(***************************************************************************)
(* ingest_data.main.                                                       *)
(***************************************************************************)
\* lines 120-124: connect and switch enforcement on, or SystemExit
Connect ==
    /\ lpc = "connect"
    /\ \/ /\ foreign_keys' = PragmaForeignKeys
          /\ lpc' = "create"
       \/ /\ lpc' = "exit"
          /\ UNCHANGED foreign_keys
    /\ UNCHANGED <<tables, db, view, ti, file, df, df_len, result, run,
                   disk>>
    /\ UNCHANGED <<distVars, genVars>>

\* lines 98-101, 127: CREATE TABLE IF NOT EXISTS for each table
CreateTables ==
    /\ lpc = "create"
    /\ tables' = tables \cup TableNames
    /\ db' = [t \in TableNames |-> CreateIfNotExists(t, tables, db)]
    /\ view' = db'
    /\ ti' = 1
    /\ lpc' = "loop"
    /\ UNCHANGED <<foreign_keys, file, df, df_len, result, run, disk>>
    /\ UNCHANGED <<distVars, genVars>>

\* lines 129-132, 135-136 and 92-95: the next table's file is read
LoadDataframe ==
    /\ lpc = "loop"
    /\ ti <= Len(Tables)
    /\ \E kind \in FilesOnDisk(Tables[ti]) :
         /\ file' = [file EXCEPT ![Tables[ti]] = kind]
         /\ disk' = [disk EXCEPT ![Tables[ti]] = kind]
         /\ IF kind = "rows"
            THEN /\ df_len' \in FrameLengths(Tables[ti])
                 /\ df' = <<>>
                 /\ lpc' = "insert"
                 /\ UNCHANGED <<ti, result>>
            ELSE IF Skipped(kind)
            THEN /\ result' = [result EXCEPT ![Tables[ti]] = "skipped"]
                 /\ ti' = ti + 1
                 /\ UNCHANGED <<df, df_len, lpc>>
            ELSE \* not caught: propagates through the finally of line 140
                 /\ result' = [result EXCEPT ![Tables[ti]] = "error"]
                 /\ lpc' = "raised"
                 /\ UNCHANGED <<ti, df, df_len>>
    /\ UNCHANGED <<foreign_keys, tables, db, view, run>>
    /\ UNCHANGED <<distVars, genVars>>

\* the committed store once a load has failed: pandas rolls the failed
\* table's inserts back, the earlier tables' commits stand
AfterFailureAllRolledBack(committed) == EmptyStore
AfterFailure(committed) == committed

\* line 109, 137-139: to_sql inserts the frame's next row; a rejected row
\* raises IntegrityError, the table's transaction is rolled back, main
\* reports and re-raises. The frame's rows are drawn as they are inserted.
InsertRow ==
    /\ lpc = "insert"
    /\ Len(df) < df_len
    /\ \E row \in FrameRows(Tables[ti]) :
         /\ df' = Append(df, row)
         /\ IF Accepts(Tables[ti], row, view)
            THEN /\ view' = [view EXCEPT ![Tables[ti]] = @ \cup {row}]
                 /\ UNCHANGED <<db, lpc, result>>
            ELSE /\ db' = AfterFailure(db)
                 /\ view' = db'
                 /\ result' = [result EXCEPT ![Tables[ti]] = "integrity"]
                 /\ lpc' = "raised"
    /\ UNCHANGED <<foreign_keys, tables, ti, file, df_len, run, disk>>
    /\ UNCHANGED <<distVars, genVars>>

\* lines 109-111, 133-134: the frame is in, to_sql commits, the rows are
\* counted and reported
Commit ==
    /\ lpc = "insert"
    /\ Len(df) = df_len
    /\ db' = view
    /\ result' = [result EXCEPT ![Tables[ti]] = "loaded"]
    /\ ti' = ti + 1
    /\ lpc' = "loop"
    /\ UNCHANGED <<foreign_keys, tables, view, file, df, df_len, run, disk>>
    /\ UNCHANGED <<distVars, genVars>>

\* lines 129, 140-141: DATA_FILES is exhausted
LoopEnd ==
    /\ lpc = "loop"
    /\ ti > Len(Tables)
    /\ lpc' = "done"
    /\ UNCHANGED <<foreign_keys, tables, db, view, ti, file, df, df_len,
                   result, run, disk>>
    /\ UNCHANGED <<distVars, genVars>>

\* lines 144-145, 114-120: after a run that completed, main is run again on
\* the same files and the same database file, with a new connection
Restart ==
    /\ lpc = "done"
    /\ run < MaxRuns
    /\ run' = run + 1
    /\ foreign_keys' = FALSE
    /\ view' = db
    /\ lpc' = "connect"
    /\ ti' = 0
    /\ file' = [t \in TableNames |-> "unread"]
    /\ df' = <<>>
    /\ df_len' = 0
    /\ result' = [t \in TableNames |-> "pending"]
    /\ UNCHANGED <<tables, db, disk>>
    /\ UNCHANGED <<distVars, genVars>>

\* the loader does not run
LoadIdle ==
    /\ foreign_keys = FALSE
    /\ tables = {}
    /\ db = EmptyStore
    /\ view = EmptyStore
    /\ lpc = "idle"
    /\ ti = 0
    /\ file = [t \in TableNames |-> "unread"]
    /\ df = <<>>
    /\ df_len = 0
    /\ result = [t \in TableNames |-> "pending"]
    /\ run = 0
    /\ disk = [t \in TableNames |-> "unread"]

(***************************************************************************)
(* SpecGen: main() of generate_data.py (lines 214-225), executed twice     *)
(* with the seed of line 215, the second time no earlier than the first.   *)
(* The counts main passes (100, 50, 200, 400, 150) are scaled down to      *)
(* every choice of counts within MaxRecords.                               *)
(***************************************************************************)
Configs ==
    {c \in [customers : 0..MaxRecords, products : 0..MaxRecords,
            orders : 0..MaxRecords, items : 0..MaxRecords,
            reviews : 0..MaxRecords] :
        c.customers + c.products + c.orders + c.items + c.reviews
            <= MaxRecords}

\* datetime.now(), line 18: the earliest and the latest start of a run
Clocks == {SpanTicks, SpanTicks + MaxNow}

OrderLocalsIdle ==
    /\ items_distribution = <<>>
    /\ order_id = 0
    /\ customer = 0
    /\ order_date = [r \in Runs |-> 0]
    /\ order_subtotal = 0
    /\ used_products = {}
    /\ item_k = 0
    /\ product = 0
    /\ retries = 0
    /\ order_item_counter = 0

PoolsEmpty ==
    /\ customers = EmptyPools
    /\ products = EmptyPools
    /\ orders = EmptyPools
    /\ order_items = EmptyPools
    /\ reviews = EmptyPools

DistIdle ==
    /\ num_orders = 0
    /\ total_items = 0
    /\ min_per_order = 0
    /\ max_per_order = 0
    /\ items_per_order = <<>>
    /\ remaining = 0
    /\ order_indices = <<>>
    /\ fi = 0
    /\ dpc = "idle"

\* the generator does not run
GenIdle ==
    /\ cfg = [customers |-> 0, products |-> 0, orders |-> 0, items |-> 0,
              reviews |-> 0]
    /\ now = [r \in Runs |-> SpanTicks]
    /\ gpc = "idle"
    /\ PoolsEmpty
    /\ OrderLocalsIdle

InitGen ==
    /\ cfg \in Configs
    /\ now \in {c \in [Runs -> Clocks] : c[1] <= c[2]}
    /\ gpc = "customers"
    /\ PoolsEmpty
    /\ OrderLocalsIdle
    /\ DistIdle
    /\ LoadIdle

NextGen ==
    \/ GenCustomer
    \/ GenProduct
    \/ GenCallDistribute
    \/ DistEnter
    \/ DistWhile
    \/ DistFor
    \/ DistSafety
    \/ DistCheck
    \/ GenDistributeDone
    \/ OrderBegin
    \/ ItemPick
    \/ ItemRetry
    \/ ItemEmit
    \/ OrderEnd
    \/ GenReview

SpecGen == InitGen /\ [][NextGen]_vars

(***************************************************************************)
(* SpecLoad: main() of ingest_data.py on a new database file, the CSV      *)
(* files being any files within the bounds, and then, when it completed,   *)
(* again on the same files and the database it left.                       *)
(***************************************************************************)
InitLoad ==
    /\ foreign_keys = FALSE
    /\ tables = {}
    /\ db = EmptyStore
    /\ view = EmptyStore
    /\ lpc = "connect"
    /\ ti = 0
    /\ file = [t \in TableNames |-> "unread"]
    /\ df = <<>>
    /\ df_len = 0
    /\ result = [t \in TableNames |-> "pending"]
    /\ run = 1
    /\ disk = [t \in TableNames |-> "unread"]
    /\ GenIdle
    /\ DistIdle

NextLoad ==
    \/ Connect
    \/ CreateTables
    \/ LoadDataframe
    \/ InsertRow
    \/ Commit
    \/ LoopEnd
    \/ Restart

SpecLoad == InitLoad /\ [][NextLoad]_vars

(***************************************************************************)
(* SpecDist: distribute_items on every input of a bounded grid, and on the *)
(* documented infeasible request (3 orders, 20 items, 1..5 per order).     *)
(***************************************************************************)
DistInputs ==
    [n : 0..DistMaxOrders, total : (-1)..DistMaxTotal,
     min : 0..DistMaxPer, max : 0..DistMaxPer]
    \cup {[n |-> 3, total |-> 20, min |-> 1, max |-> 5]}

InitDist ==
    /\ \E in \in DistInputs :
         /\ num_orders = in.n
         /\ total_items = in.total
         /\ min_per_order = in.min
         /\ max_per_order = in.max
    /\ items_per_order = <<>>
    /\ remaining = 0
    /\ order_indices = <<>>
    /\ fi = 0
    /\ dpc = "call"
    /\ GenIdle
    /\ LoadIdle

NextDist ==
    \/ DistEnter
    \/ DistWhile
    \/ DistFor
    \/ DistSafety
    \/ DistCheck

SpecDist == InitDist /\ [][NextDist]_vars

\* the scheduler always runs the next statement of the call
FairSpecDist == SpecDist /\ WF_vars(NextDist)

(***************************************************************************)
(* Claims about the generation pipeline.                                   *)
(***************************************************************************)
RECURSIVE SumSubtotalsOf(_, _)
\* the recorded subtotals, read back, of the items recorded under order oid
SumSubtotalsOf(items, oid) ==
    IF items = <<>> THEN 0
    ELSE (IF Head(items).order_id = oid
          THEN ParseAmount(Head(items).subtotal) ELSE 0)
         + SumSubtotalsOf(Tail(items), oid)

ItemsOf(items, oid) == {i \in 1..Len(items) : items[i].order_id = oid}

\* C3: the total_amount recorded for every generated order equals the sum,
\* rounded to two decimals, of the recorded subtotals of exactly the order
\* items recorded under that order's id.
C3_TotalIsRoundedSum ==
    \A r \in Runs : \A i \in 1..Len(orders[r]) :
        ParseAmount(orders[r][i].total_amount) =
            Round2(SumSubtotalsOf(order_items[r], orders[r][i].order_id))

\* a finished run recorded an order of several items, one of them of
\* several units
C3_Witness ==
    /\ gpc = "done"
    /\ \E i \in 1..Len(orders[1]) :
         /\ Cardinality(ItemsOf(order_items[1], orders[1][i].order_id)) >= 2
         /\ \E k \in ItemsOf(order_items[1], orders[1][i].order_id) :
              order_items[1][k].quantity >= 2

Ids(pool, field) == {pool[i][field] : i \in 1..Len(pool)}

\* C4: after a complete generation pass every reference resolves: each
\* order's customer_id is a generated customer's id, each order item's
\* order_id and product_id are a generated order's and product's ids, each
\* review's customer_id and product_id are a generated customer's and
\* product's ids.
C4_ReferencesResolve ==
    gpc = "done" =>
        \A r \in Runs :
            /\ Ids(orders[r], "customer_id") \subseteq
                   Ids(customers[r], "customer_id")
            /\ Ids(order_items[r], "order_id") \subseteq
                   Ids(orders[r], "order_id")
            /\ Ids(order_items[r], "product_id") \subseteq
                   Ids(products[r], "product_id")
            /\ Ids(reviews[r], "customer_id") \subseteq
                   Ids(customers[r], "customer_id")
            /\ Ids(reviews[r], "product_id") \subseteq
                   Ids(products[r], "product_id")

\* a complete pass that generated orders, order items and reviews
C4_Witness ==
    /\ gpc = "done"
    /\ Len(orders[1]) >= 1
    /\ Len(order_items[1]) >= 1
    /\ Len(reviews[1]) >= 1

\* C9: two complete runs with the same seed produce identical customers,
\* products, orders, order_items and reviews pools, whatever the wall-clock
\* time of each run.
C9_SameSeedSamePools ==
    gpc = "done" =>
        /\ customers[1] = customers[2]
        /\ products[1] = products[2]
        /\ orders[1] = orders[2]
        /\ order_items[1] = order_items[2]
        /\ reviews[1] = reviews[2]

\* C10: every pool generate_customers returns has the ids 1..N, each once,
\* and no two of its customers share an email.
C10_CustomersUnique ==
    gpc \notin {"idle", "customers"} =>
        \A r \in Runs :
            /\ \A i \in 1..Len(customers[r]) :
                   customers[r][i].customer_id = i
            /\ \A i, j \in 1..Len(customers[r]) :
                   customers[r][i].email = customers[r][j].email => i = j

\* C15: a line item is picked with at most 5 retries, each made only because
\* the last pick is already in the order; a product already in the order is
\* recorded only once the 5 retries are used up, the product recorded is the
\* last one picked, and every order is recorded with exactly its allocated
\* number of items.
C15_BoundedRetry ==
    [][/\ retries' <= MaxRetries
       /\ retries' = retries + 1
          => products[1][product].product_id \in used_products
       /\ Len(order_items'[1]) = Len(order_items[1]) + 1
          => LET item == order_items'[1][Len(order_items'[1])] IN
             /\ item.product_id = products[1][product].product_id
             /\ item.product_id \in used_products => retries = MaxRetries
       /\ Len(orders'[1]) = Len(orders[1]) + 1
          => Cardinality(ItemsOf(order_items'[1], order_id))
                 = items_distribution[order_id]]_vars

\* a finished run recorded one product twice in an order, after its retries
C15_Witness ==
    /\ gpc = "done"
    /\ retries = MaxRetries
    /\ \E i, j \in 1..Len(order_items[1]) :
         /\ i # j
         /\ order_items[1][i].order_id = order_items[1][j].order_id
         /\ order_items[1][i].product_id = order_items[1][j].product_id

(***************************************************************************)
(* Claims about the load pipeline.                                         *)
(***************************************************************************)
Pos(t) == CHOOSE i \in 1..Len(Tables) : Tables[i] = t

\* df is the frame of table t: its rows are being inserted, or one of them
\* was just rejected
InFrame(t) ==
    /\ ti \in 1..Len(Tables)
    /\ Tables[ti] = t
    /\ \/ lpc = "insert"
       \/ lpc = "raised" /\ result[t] = "integrity"

\* the step hands the store one more row of the frame of table t
Inserts(t) ==
    /\ lpc = "insert"
    /\ Tables[ti] = t
    /\ Len(df') = Len(df) + 1

\* C5: when the customers frame holds a record whose email an earlier record
\* of the frame has, the customers load fails with an integrity violation,
\* the customers table does not grow beyond the rows that preceded the
\* second record, and no stored row shares its email with another.
C5_DuplicateEmailRejected ==
    [][(/\ Inserts("customers")
        /\ \E i \in 1..Len(df) : df[i].email = df'[Len(df')].email)
       => /\ lpc' = "raised"
          /\ result'["customers"] = "integrity"
          /\ \A st \in {db', view'} :
               /\ Cardinality(st["customers"]) <=
                      Cardinality(db["customers"]) + Len(df)
               /\ \A a, b \in st["customers"] : a.email = b.email => a = b
               /\ \A a \in st["customers"] :
                      a.email = df'[Len(df')].email =>
                          a.customer_id # df'[Len(df')].customer_id]_vars

\* the customers load has failed on a second record that repeats the email,
\* not the key, of the first
C5_Witness ==
    /\ InFrame("customers")
    /\ lpc = "raised"
    /\ Len(df) = 2
    /\ df[1].email = df[2].email
    /\ df[1].customer_id # df[2].customer_id

\* the rows of the frame so far have distinct keys (and emails) and every
\* reference of theirs has its row in the loaded parent table
RefsAndKeysOK(t, frame) ==
    /\ \A i, j \in 1..Len(frame) :
           frame[i][KeyOf(t)] = frame[j][KeyOf(t)] => i = j
    /\ t = "customers" =>
           \A i, j \in 1..Len(frame) :
               frame[i].email = frame[j].email => i = j
    /\ \A i \in 1..Len(frame) : \A fk \in ForeignKeys(t) :
           frame[i][fk[1]] \in Column(db[fk[2]], KeyOf(fk[2]))

RatingsOK(t, frame) == \A i \in 1..Len(frame) : CheckOK(t, frame[i])

AllFilesHaveRows(n) == \A u \in 1..n : file[Tables[u]] = "rows"

AllLoaded == \A t \in TableNames : result[t] = "loaded"

\* an order item of the frame names an order the orders table lacks: the
\* load has failed with an integrity violation
MissingOrderFails ==
    (/\ InFrame("order_items")
     /\ \E i \in 1..Len(df) :
            df[i].order_id \notin Column(db["orders"], "order_id"))
    => lpc = "raised" /\ result["order_items"] = "integrity"

\* C6, as stated: order items whose order is missing fail with a
\* foreign-key violation, and pools whose references all resolve and whose
\* keys and emails are unique load into an empty store, in the order
\* customers, products, orders, order_items, reviews, without a failure.
C6_Original ==
    /\ MissingOrderFails
    /\ \A t \in TableNames :
         (/\ run = 1
          /\ InFrame(t)
          /\ AllFilesHaveRows(ti)
          /\ RefsAndKeysOK(t, df))
         => lpc # "raised"
    /\ (lpc = "done" /\ AllFilesHaveRows(Len(Tables))) => AllLoaded

\* C6, amended: the same, for pools whose ratings also lie within 1..5.
C6_ResolvedPoolsLoad ==
    /\ MissingOrderFails
    /\ \A t \in TableNames :
         (/\ run = 1
          /\ InFrame(t)
          /\ AllFilesHaveRows(ti)
          /\ RefsAndKeysOK(t, df)
          /\ RatingsOK(t, df))
         => lpc # "raised"
    /\ (lpc = "done" /\ AllFilesHaveRows(Len(Tables))) => AllLoaded

\* all five tables were loaded, each with a row
C6_Witness ==
    /\ lpc = "done"
    /\ AllLoaded
    /\ \A t \in TableNames : db[t] # {}

\* C7: a row the store rejects while table T loads makes the pipeline raise
\* an integrity violation; after that no step is taken, so no later table is
\* attempted; and a table that was loaded keeps its rows through every
\* later step, the failing one and a later run included.
C7_IntegrityAbortsKeepsEarlier ==
    [][/\ lpc # "raised"
       /\ \A t \in TableNames :
            /\ (Inserts(t) /\ ~Accepts(t, df'[Len(df')], view))
               => /\ lpc' = "raised"
                  /\ result'[t] = "integrity"
            /\ result'[t] = "integrity"
               => /\ lpc' = "raised"
                  /\ \A u \in TableNames :
                       Pos(u) > Pos(t) =>
                           result'[u] = "pending" /\ file'[u] = "unread"
            /\ result[t] = "loaded"
               => /\ db'[t] = db[t]
                  /\ result'[t] = "loaded" \/ run' # run]_vars

\* the order_items load was rejected after customers, products and orders
\* were loaded with rows, which the store still holds
C7_Witness ==
    /\ lpc = "raised"
    /\ result["order_items"] = "integrity"
    /\ \A t \in {"customers", "products", "orders"} :
         result[t] = "loaded" /\ db[t] # {}

\* C8: a table whose file is absent or does not parse is skipped without
\* raising, its rows stay as they were, and the pipeline only ends raising
\* when some table met an integrity violation.
C8_UnreadableSkipped ==
    /\ \A t \in TableNames :
         file[t] \in {"absent", "malformed", "empty"}
         => result[t] = "skipped" /\ db[t] = {}
    /\ lpc = "raised" => \E t \in TableNames : result[t] = "integrity"

\* no stored row names a parent row that its parent table lacks
NoDanglingReferences ==
    \A t \in TableNames : \A row \in db[t] : \A fk \in ForeignKeys(t) :
        row[fk[1]] \in Column(db[fk[2]], KeyOf(fk[2]))

\* C11: when the file of a parent table is absent, the parent is skipped and
\* stays empty, and the load of a child table whose file has a row raises an
\* integrity violation at the child, after which no later table is
\* attempted; the pipeline never completes with a stored row whose parent
\* row is missing.
C11_MissingParentFailsAtChild ==
    /\ \A t \in TableNames : \A fk \in ForeignKeys(t) :
         /\ file[fk[2]] = "absent"
            => result[fk[2]] = "skipped" /\ db[fk[2]] = {}
         /\ (file[fk[2]] = "absent" /\ InFrame(t) /\ Len(df) >= 1)
            => /\ lpc = "raised"
               /\ result[t] = "integrity"
               /\ db[t] = {}
               /\ \A u \in TableNames :
                    Pos(u) > Pos(t) =>
                        result[u] = "pending" /\ file[u] = "unread"
    /\ lpc = "done" => NoDanglingReferences

\* customers.csv was absent and skipped, orders.csv had a row: the orders
\* load raised the integrity violation
C11_Witness ==
    /\ file["customers"] = "absent"
    /\ result["customers"] = "skipped"
    /\ file["orders"] = "rows"
    /\ Len(df) >= 1
    /\ lpc = "raised"
    /\ result["orders"] = "integrity"

\* C12: create_tables, invoked on a store that has the five tables, goes on
\* to the loads without an error and leaves the set of tables and the rows
\* of every table as they were; and whatever store it is invoked on,
\* creating the tables once more after it would change nothing.
C12_CreateTablesIdempotent ==
    [][lpc = "create"
       => /\ TableNames \subseteq tables
             => /\ lpc' = "loop"
                /\ tables' = tables
                /\ db' = db
                /\ view' = view
          /\ tables' \cup TableNames = tables'
          /\ \A t \in TableNames :
               CreateIfNotExists(t, tables', db') = db'[t]]_vars

\* create_tables has run a second time, on the tables and the rows the
\* first run left
C12_Witness ==
    /\ run = 2
    /\ lpc = "loop"
    /\ ti = 1
    /\ file["customers"] = "unread"
    /\ TableNames \subseteq tables
    /\ db["customers"] # {}
    /\ db["orders"] # {}

\* the order the loads are to be attempted in
ExpectedOrder == <<"customers", "products", "orders", "order_items", "reviews">>

OrderPos(t) == CHOOSE i \in 1..Len(ExpectedOrder) : ExpectedOrder[i] = t

\* the step reads the file of table t, which begins its load
Attempts(t) ==
    /\ lpc = "loop"
    /\ ti \in 1..Len(Tables)
    /\ Tables[ti] = t

Finished(t) == result[t] \in {"loaded", "skipped"}

\* C14: within a run a table's load is attempted only if it was not attempted
\* before, when every table before it in the order customers, products,
\* orders, order_items, reviews has been attempted and has finished, loaded
\* or skipped, and no table after it has been attempted; so each parent
\* table of a child has finished before the child's load begins. A file is
\* read, and rows are inserted, only by such an attempt.
C14_LoadsInDependencyOrder ==
    [][\A t \in TableNames :
         /\ Attempts(t)
            => /\ file[t] = "unread"
               /\ result[t] = "pending"
               /\ \A u \in TableNames :
                    /\ OrderPos(u) < OrderPos(t)
                       => file[u] # "unread" /\ Finished(u)
                    /\ OrderPos(u) > OrderPos(t)
                       => file[u] = "unread" /\ result[u] = "pending"
               /\ \A fk \in ForeignKeys(t) : Finished(fk[2])
         /\ (file'[t] # file[t] /\ file'[t] # "unread") => Attempts(t)
         /\ Inserts(t) => file[t] = "rows" /\ result[t] = "pending"
         /\ (result'[t] # result[t] /\ result'[t] # "pending")
            => file'[t] # "unread"]_vars

\* a run attempted all five tables: products was skipped, the other four
\* were loaded
C14_Witness ==
    /\ lpc = "done"
    /\ result["customers"] = "loaded"
    /\ result["products"] = "skipped"
    /\ result["orders"] = "loaded"
    /\ db["orders"] # {}
    /\ result["order_items"] = "loaded"
    /\ result["reviews"] = "loaded"

\* the run is a later one, and the first run found rows files for all five
\* tables and loaded them
SamePoolsAgain == run >= 2 /\ \A t \in TableNames : disk[t] = "rows"

\* C16, as stated: in a second run on the pools the store holds no step
\* changes a stored row, only the customers load is attempted, and that
\* load ends in an integrity violation.
C16_Original ==
    [][SamePoolsAgain
       => /\ db' = db
          /\ \A t \in TableNames : Attempts(t) => t = "customers"
          /\ lpc = "insert"
             => /\ lpc' = "raised"
                /\ result'["customers"] = "integrity"]_vars

\* C16, amended: no step of any run removes or changes a stored row; in a
\* later run on the same files no step changes the store at all, every row
\* handed to the store is one the table holds and is rejected for its
\* duplicate primary key, which ends the run with an integrity violation
\* at the first table whose pool has a row (customers, unless its pool is
\* empty) and with no later table attempted; the run completes only when
\* every pool is empty.
C16_SecondRunAppendsNothing ==
    [][/\ \A t \in TableNames : db[t] \subseteq db'[t]
       /\ run >= 2
          => /\ db' = db
             /\ lpc' = "done" => db = EmptyStore
             /\ \A t \in TableNames :
                  /\ Attempts(t)
                     => /\ \A u \in TableNames :
                             OrderPos(u) < OrderPos(t) => db[u] = {}
                        /\ db[t] # {} => lpc' = "insert" /\ df_len' >= 1
                  /\ Inserts(t)
                     => /\ df'[Len(df')] \in db[t]
                        /\ df'[Len(df')][KeyOf(t)]
                               \in Column(db[t], KeyOf(t))
                        /\ lpc' = "raised"
                        /\ result'[t] = "integrity"
                        /\ \A u \in TableNames :
                             OrderPos(u) > OrderPos(t)
                             => file'[u] = "unread" /\ result'[u] = "pending"
             /\ (db["customers"] # {} /\ lpc' = "raised")
                => result'["customers"] = "integrity"]_vars

\* the second run was rejected at customers, on a store that holds rows of
\* all five tables
C16_Witness ==
    /\ run = 2
    /\ lpc = "raised"
    /\ result["customers"] = "integrity"
    /\ \A t \in TableNames : db[t] # {}

(***************************************************************************)
(* Claims about distribute_items.                                          *)
(***************************************************************************)
DistFeasible ==
    /\ num_orders * min_per_order <= total_items
    /\ total_items <= num_orders * max_per_order

DistResultOK ==
    /\ Len(items_per_order) = num_orders
    /\ \A i \in 1..Len(items_per_order) :
         /\ min_per_order <= items_per_order[i]
         /\ items_per_order[i] <= max_per_order
    /\ Sum(items_per_order) = total_items

C1Pre == num_orders >= 1 /\ min_per_order <= max_per_order /\ DistFeasible

\* C1: on a feasible request (order_count >= 1, min <= max,
\* order_count*min <= total_items <= order_count*max) and under every outcome
\* of the shuffles, distribute_items never raises, does return, and what it
\* returns has length order_count, every element in [min, max] and sum
\* total_items.
C1_FeasibleReturns ==
    /\ [](C1Pre => /\ dpc # "raised"
                   /\ (dpc = "returned" => DistResultOK))
    /\ (C1Pre ~> dpc = "returned")

\* a feasible request of three orders that needed increments, not all of them
\* saturated, has returned
C1_Witness ==
    /\ C1Pre
    /\ dpc = "returned"
    /\ num_orders = 3
    /\ num_orders * min_per_order < total_items
    /\ total_items < num_orders * max_per_order

C2Pre == num_orders >= 0 /\ min_per_order <= max_per_order

\* C2: with order_count >= 0 and min <= max, distribute_items raises
\* ValueError exactly when order_count*max < total_items or
\* order_count*min > total_items: an infeasible request always ends raising
\* and never returns, a feasible one never raises.
C2_RaisesIffInfeasible ==
    /\ [](C2Pre => /\ (dpc = "raised" => ~DistFeasible)
                   /\ (dpc = "returned" => DistFeasible))
    /\ ((C2Pre /\ ~DistFeasible) ~> dpc = "raised")

\* the documented infeasible request has raised
C2_Witness ==
    /\ num_orders = 3 /\ total_items = 20
    /\ min_per_order = 1 /\ max_per_order = 5
    /\ dpc = "raised"

\* C13: distribute_items terminates on every input, feasible or not, and
\* under every shuffle outcome: the call ends returning or raising.
C13_AlwaysTerminates == <>(dpc \in {"returned", "raised"})

=============================================================================
